---- MODULE Spec2Model ----
(***************************************************************************)
(* The data pipeline of football_pca: tables_regex.py (Season Table        *)
(* Builder), stats_bs4.py (Season Statistic Builder) and merge.py          *)
(* (Merge/Join Engine and Rate Deriver), run one after the other over the  *)
(* HTML pages the collectors saved.                                        *)
(*                                                                         *)
(* Strings are sequences of tokens.  A token is one character, or, inside  *)
(* team, attribute and column names, one word of letters; the separators   *)
(* the code looks at (" ", "_", ".", "&", ",", "\n", digits, signs) are    *)
(* always tokens of their own.  Short names and season tags, which the    *)
(* code concatenates, are spelled one character per token.                 *)
(*                                                                         *)
(* A DataFrame is [index, columns, values]: the row labels, the column     *)
(* names and the rows of cells.  A cell is <<"int", n>>, <<"str", s>>,     *)
(* <<"nan">> or <<"float", n, d>> (the quotient n/d in lowest terms).      *)
(*                                                                         *)
(* The saved HTML enters as what the patterns and the parser find in it    *)
(* (the lists re.findall returns, the rows of the statistics table body).  *)
(* os.listdir returns the entries of a directory in the order of the       *)
(* seasons of data_references.py.  An uncaught exception ends the script   *)
(* that raised it; the next script of the pipeline is then run.  The       *)
(* variable joined keeps master_df as the season loop of merge.py left it, *)
(* so that the rates can be compared with the values they were made from.  *)
(***************************************************************************)
EXTENDS Integers, Sequences, FiniteSets, TLC

\* ------------------------------------------------------------ bounds
\* Seasons enumerated by one run of the pipeline.
MaxSeasons == 2

\* ------------------------------------------------------- str helpers
RECURSIVE replace(_, _, _)
\* str.replace(old, new) for a one-token old
replace(x, old, new) ==
    IF x = <<>> THEN <<>>
    ELSE (IF Head(x) = old THEN new ELSE <<Head(x)>>) \o replace(Tail(x), old, new)

\* str.find(c) == -1
NotFound(x, c) == \A i \in 1..Len(x) : x[i] # c

remove_amp(x) ==
    IF NotFound(x, "&") THEN x ELSE replace(x, "&", <<"and">>)

remove_comma(x) ==
    IF NotFound(x, ",") THEN x ELSE replace(x, ",", <<>>)

Whitespace == {" ", "\n", "\t"}

RECURSIVE lstrip(_)
lstrip(x) == IF x # <<>> /\ Head(x) \in Whitespace THEN lstrip(Tail(x)) ELSE x

RECURSIVE rstrip(_)
rstrip(x) ==
    IF x # <<>> /\ x[Len(x)] \in Whitespace THEN rstrip(SubSeq(x, 1, Len(x) - 1)) ELSE x

\* str.strip()
strip(x) == rstrip(lstrip(x))

RECURSIVE FirstField(_, _)
\* str.split(sep)[0]
FirstField(x, sep) ==
    IF x = <<>> \/ Head(x) = sep THEN <<>> ELSE <<Head(x)>> \o FirstField(Tail(x), sep)

\* ------------------------------------------------------ int coercion
DigitChars == <<"0", "1", "2", "3", "4", "5", "6", "7", "8", "9">>

IsDigit(c) == \E d \in 1..10 : DigitChars[d] = c

DigitVal(c) == (CHOOSE d \in 1..10 : DigitChars[d] = c) - 1

RECURSIVE NatVal(_)
NatVal(s) ==
    IF s = <<>> THEN 0
    ELSE 10 * NatVal(SubSeq(s, 1, Len(s) - 1)) + DigitVal(s[Len(s)])

Unsigned(s) ==
    LET t == strip(s) IN IF t # <<>> /\ t[1] \in {"+", "-"} THEN Tail(t) ELSE t

\* int(s) does not raise ValueError
IntOk(s) == Unsigned(s) # <<>> /\ \A i \in 1..Len(Unsigned(s)) : IsDigit(Unsigned(s)[i])

\* int(s)
IntVal(s) ==
    LET t == strip(s) IN
    IF t[1] = "-" THEN 0 - NatVal(Unsigned(s)) ELSE NatVal(Unsigned(s))

\* ------------------------------------------------------------- cells
IntCell(n) == <<"int", n>>
StrCell(s) == <<"str", s>>
NaN == <<"nan">>

IsInt(c) == c[1] = "int"
IsNaN(c) == c[1] = "nan"
IsFloat(c) == c[1] = "float"

RECURSIVE Gcd(_, _)
Gcd(a, b) == IF b = 0 THEN a ELSE Gcd(b, a % b)

Abs(a) == IF a < 0 THEN 0 - a ELSE a

\* The float n/d, d > 0, as the fraction in lowest terms.
Float(n, d) ==
    LET g == Gcd(Abs(n), d) IN <<"float", n \div g, d \div g>>

\* The number in a numeric cell as numerator and denominator.
Num(c) == IF IsInt(c) THEN c[2] ELSE c[2]
Den(c) == IF IsInt(c) THEN 1 ELSE c[3]

\* ------------------------------------------------------- data frames
EmptyFrame == [index |-> <<>>, columns |-> <<>>, values |-> <<>>]

RECURSIVE IndexFrom(_, _, _)
IndexFrom(s, x, i) ==
    IF i > Len(s) THEN 0 ELSE IF s[i] = x THEN i ELSE IndexFrom(s, x, i + 1)

\* The first position of x in s, 0 when absent.
IndexOf(s, x) == IndexFrom(s, x, 1)

\* The sequence s with every element evaluated.
Tuple(s) == s \o <<>>

Has(s, x) == \E i \in 1..Len(s) : s[i] = x

Unique(s) == \A i, j \in 1..Len(s) : s[i] = s[j] => i = j

RECURSIVE Select(_, _)
\* The elements of s at the positions ps, in that order.
Select(s, ps) ==
    IF ps = <<>> THEN <<>> ELSE <<s[Head(ps)]>> \o Select(s, Tail(ps))

\* A directory with the file name written.
WriteFile(dir, name, df) ==
    [f \in DOMAIN dir \cup {name} |-> IF f = name THEN df ELSE dir[f]]

\* df[col] of the row at position r
Cell(df, r, col) == df.values[r][IndexOf(df.columns, col)]

\* ------------------------------------------------------ the web site
(* What the collectors saved for a season, as a scenario of the site; the  *)
(* table page and the statistics pages of a season are saved by different  *)
(* collectors and can be faulty independently:                             *)
(*   ok        20 well-formed table rows; every statistic lists the 20     *)
(*             teams on page 1 and the site returns that page again as     *)
(*             page 2                                                      *)
(*   varied    21 table rows, one short name being another one followed by *)
(*             two digits; statistics really paginated, some listing only  *)
(*             some teams, some with no rows; one team spelled differently *)
(*             by the statistics pages                                     *)
(*   played0   the last table row has played no match yet                  *)
(*   nomarker  the table body marker is absent from the table page; page 2 *)
(*             of one statistic repeats one team of page 1                 *)
(*   short     the table page has 19 rows; one statistic value is not a    *)
(*             number                                                      *)
(*   badint    a table field is not a number                               *)
(*   nopage2   the pagination click failed for one statistic: no page 2    *)
(*   nodir     the season has no statistics directory                      *)
Scenarios ==
    {"ok", "varied", "played0", "nomarker", "short", "badint", "nopage2", "nodir"}

LongNames ==
    << <<"Arsenal">>,
       <<"Aston", " ", "Villa">>,
       <<"Bournemouth">>,
       <<"Brentford">>,
       <<"Brighton", " ", "and", " ", "Hove", " ", "Albion">>,
       <<"Burnley">>,
       <<"Chelsea">>,
       <<"Crystal", " ", "Palace">>,
       <<"Everton">>,
       <<"Fulham">>,
       <<"Liverpool">>,
       <<"Luton", " ", "Town">>,
       <<"Manchester", " ", "City">>,
       <<"Manchester", " ", "United">>,
       <<"Newcastle", " ", "United">>,
       <<"Nottingham", " ", "Forest">>,
       <<"Sheffield", " ", "United">>,
       <<"Tottenham", " ", "Hotspur">>,
       <<"West", " ", "Ham", " ", "United">>,
       <<"Wolverhampton", " ", "Wanderers">>,
       <<"Leicester", " ", "City">> >>

ShortNames ==
    << <<"A", "R", "S">>,
       <<"A", "V", "L">>,
       <<"B", "O", "U">>,
       <<"B", "R", "E">>,
       <<"B", "H", "A">>,
       <<"B", "U", "R">>,
       <<"C", "H", "E">>,
       <<"C", "R", "Y">>,
       <<"E", "V", "E">>,
       <<"F", "U", "L">>,
       <<"L", "I", "V">>,
       <<"L", "U", "T">>,
       <<"M", "C", "I">>,
       <<"M", "U", "N">>,
       <<"N", "E", "W">>,
       <<"N", "F", "O">>,
       <<"S", "H", "U">>,
       <<"T", "O", "T">>,
       <<"W", "H", "U">>,
       <<"W", "O", "L">>,
       <<"L", "E", "I">> >>

\* The teams of a full league table, and the team the site may list beyond them.
LeagueSize == Len(LongNames) - 1

RECURSIVE NumStr(_)
\* The decimal digits of n >= 0.
NumStr(n) ==
    IF n < 10 THEN <<DigitChars[n + 1]>>
    ELSE NumStr(n \div 10) \o <<DigitChars[(n % 10) + 1]>>

\* A count as the site prints it: with a comma before the last three digits.
SiteNumber(n) ==
    IF n < 1000 THEN NumStr(n)
    ELSE NumStr(n \div 1000) \o <<",">>
         \o <<DigitChars[((n \div 100) % 10) + 1], DigitChars[((n \div 10) % 10) + 1],
              DigitChars[(n % 10) + 1]>>

\* A goal difference as the site prints it: signed.
SiteSigned(n) ==
    IF n > 0 THEN <<"+">> \o NumStr(n)
    ELSE IF n < 0 THEN <<"-">> \o NumStr(0 - n)
    ELSE NumStr(0)

\* The season totals of the team at league position i.
SiteWon(i) == 30 - i
SiteDrawn(i) == 5 + (i % 3)
SiteLost(i) == 38 - SiteWon(i) - SiteDrawn(i)
SiteGoalsFor(i) == 90 - 3 * i
SiteGoalsConceded(i) == 20 + 2 * i

\* The eight cells the table page shows for position i.
SiteTableCells(sc, i) ==
    IF sc = "played0" /\ i = LeagueSize
    THEN <<NumStr(0), NumStr(0), NumStr(0), NumStr(0), NumStr(0), NumStr(0),
           SiteSigned(0), NumStr(0)>>
    ELSE <<NumStr(38), NumStr(SiteWon(i)), NumStr(SiteDrawn(i)), NumStr(SiteLost(i)),
           NumStr(SiteGoalsFor(i)), NumStr(SiteGoalsConceded(i)),
           SiteSigned(SiteGoalsFor(i) - SiteGoalsConceded(i)),
           IF sc = "badint" /\ i = 3 THEN <<"-">>
           ELSE NumStr(3 * SiteWon(i) + SiteDrawn(i))>>

SiteShortName(sc, i) ==
    IF sc = "varied" /\ i = 2 THEN ShortNames[1] \o <<"2", "0">> ELSE ShortNames[i]

SiteTableRows(sc) ==
    CASE sc = "short" -> LeagueSize - 1
      [] sc = "varied" -> LeagueSize + 1
      [] OTHER -> LeagueSize

(* A saved table page, as what the four patterns of tables_regex.py find   *)
(* in it: the table bodies and, inside one, the long names, the short      *)
(* names and the eight-cell groups.                                        *)
TablePage(sc) ==
    IF sc = "nomarker" THEN [tbody |-> <<>>]
    ELSE [tbody |-> << [team_name_long |-> [i \in 1..SiteTableRows(sc) |-> LongNames[i]],
                        team_name_short |->
                            [i \in 1..SiteTableRows(sc) |-> SiteShortName(sc, i)],
                        stats |->
                            [i \in 1..SiteTableRows(sc) |-> SiteTableCells(sc, i)]] >>]

\* --------------------------------------------------- directory entries
(* The season tags: the 'year' of the seasons the collectors save, which   *)
(* names the season's table page and its statistics directory.             *)
SeasonTags ==
    << <<"2", "0", "1", "7", "_", "1", "8">>,
       <<"2", "0", "1", "8", "_", "1", "9">>,
       <<"2", "0", "1", "9", "_", "2", "0">>,
       <<"2", "0", "2", "0", "_", "2", "1">>,
       <<"2", "0", "2", "1", "_", "2", "2">>,
       <<"2", "0", "2", "2", "_", "2", "3">>,
       <<"2", "0", "2", "3", "_", "2", "4">> >>

Seasons == 1..MaxSeasons

HtmlName(k) == SeasonTags[k] \o <<".", "html">>
PklName(tag) == tag \o <<".", "pkl">>

\* ------------------------------------------------------------- state
VARIABLES
    site,           \* what the collectors saved: season number -> scenario
    stage,          \* the script that is running: tables, stats, merge, end
    status,         \* script -> notrun, running, done, raised
    next_season,    \* the position of the running script's season loop
    tables_pkl,     \* scraping/tables_pkl: file name -> DataFrame
    stats_pkl,      \* scraping/stats_pkl: file name -> DataFrame
    stats_season,   \* stats_bs4.py: season, as its number (0 before the loop)
    attribute,      \* stats_bs4.py: attribute (<<>> before the loop)
    next_attribute, \* stats_bs4.py: the position of the attribute loop
    stats_master_df,\* stats_bs4.py: master_df
    teams_concat,   \* stats_bs4.py: teams_concat after the last page loop
    stats_concat,   \* stats_bs4.py: stats_concat after the last page loop
    warnings,       \* stats_bs4.py: the statistics logged as having no data
    master_df,      \* merge.py: master_df
    cols,           \* merge.py: the columns the rate loop has still to process
    joined,         \* merge.py: master_df as the season loop left it
    pl_data         \* pl_data.csv: <<>> until written, then <<the frame written>>

stats_vars == <<next_attribute, stats_master_df, teams_concat, stats_concat, warnings>>

loop_vars == <<stats_season, attribute>>

merge_vars == <<master_df, cols, joined, pl_data>>

vars ==
    <<site, stage, status, next_season, tables_pkl, stats_pkl, loop_vars, stats_vars,
      merge_vars>>

\* ------------------------------------------------------ tables_regex.py
\* scraping/tables_html, as os.listdir returns it
TablesHtmlDir == [k \in Seasons |-> HtmlName(k)]

\* A loop bound one short of the source's, as `while i < 19` would give.
LastRowIndexShort == 19 - 1

\* The row index the while loop stops after.
LastRowIndex == 19

TableColumns ==
    << <<"Short", "_", "name">>, <<"Position">>, <<"Played">>, <<"Won">>, <<"Drawn">>,
       <<"Lost">>, <<"Goals", "_", "For">>, <<"Goals", "_", "Conceded">>,
       <<"Goal", "_", "Difference">>, <<"Points">> >>

\* The season's iteration raises: an index out of range or a failed astype.
TableRaises(page) ==
    \/ Len(page.tbody) = 0
    \/ LET t == page.tbody[1] IN
        \/ Len(t.team_name_long) <= LastRowIndex
        \/ Len(t.team_name_short) <= LastRowIndex
        \/ Len(t.stats) <= LastRowIndex
        \/ \E i \in 1..(LastRowIndex + 1), j \in 1..8 : ~IntOk(t.stats[i][j])

\* The DataFrame of lines 24-56: rows 0..19 in document order, indexed by Team.
TableFrame(page) ==
    LET t == page.tbody[1] IN
    [index |-> [i \in 1..(LastRowIndex + 1) |-> t.team_name_long[i]],
     columns |-> TableColumns,
     values |-> [i \in 1..(LastRowIndex + 1) |->
                    <<StrCell(t.team_name_short[i]), IntCell(i)>>
                    \o [j \in 1..8 |-> IntCell(IntVal(t.stats[i][j]))]]]

(* A season loop that catches the error of a season and goes on with the   *)
(* next one, which the source does not do.                                 *)
TablesSeasonSkip ==
    /\ stage = "tables"
    /\ next_season <= Len(TablesHtmlDir)
    /\ tables_pkl' =
          IF TableRaises(TablePage(site[next_season])) THEN tables_pkl
          ELSE WriteFile(tables_pkl, PklName(FirstField(TablesHtmlDir[next_season], ".")),
                         TableFrame(TablePage(site[next_season])))
    /\ next_season' = next_season + 1
    /\ UNCHANGED <<site, stage, status, stats_pkl, loop_vars, stats_vars, merge_vars>>

\* One iteration of the season loop of tables_regex.py.
TablesSeason ==
    /\ stage = "tables"
    /\ next_season <= Len(TablesHtmlDir)
    /\ LET season == TablesHtmlDir[next_season]
           page == TablePage(site[next_season])
       IN  IF TableRaises(page)
           THEN /\ status' = [status EXCEPT !.tables = "raised"]
                /\ stage' = "stats"
                /\ next_season' = 1
                /\ UNCHANGED tables_pkl
           ELSE /\ tables_pkl' =
                      [f \in DOMAIN tables_pkl \cup {PklName(FirstField(season, "."))} |->
                          IF f = PklName(FirstField(season, ".")) THEN TableFrame(page)
                          ELSE tables_pkl[f]]
                /\ next_season' = next_season + 1
                /\ UNCHANGED <<stage, status>>
    /\ UNCHANGED <<site, stats_pkl, loop_vars, stats_vars, merge_vars>>

\* tables_regex.py ends after the last season.
TablesExit ==
    /\ stage = "tables"
    /\ next_season > Len(TablesHtmlDir)
    /\ status' = [status EXCEPT !.tables = "done"]
    /\ stage' = "stats"
    /\ next_season' = 1
    /\ UNCHANGED <<site, tables_pkl, stats_pkl, loop_vars, stats_vars, merge_vars>>

\* --------------------------------------------------- data_references.py
stats_attributes ==
    << <<"Wins">>,
       <<"Losses">>,
       <<"Goals">>,
       <<"Yellow", " ", "Cards">>,
       <<"Red", " ", "Cards">>,
       <<"Substitutions", " ", "On">>,
       <<"Shots">>,
       <<"Shots", " ", "On", " ", "Target">>,
       <<"Hit", " ", "Woodwork">>,
       <<"Goals", " ", "From", " ", "Header">>,
       <<"Goals", " ", "From", " ", "Penalty">>,
       <<"Goals", " ", "From", " ", "Freekick">>,
       <<"Goals", " ", "From", " ", "Inside", " ", "Box">>,
       <<"Goals", " ", "From", " ", "Outside", " ", "Box">>,
       <<"Goals", " ", "From", " ", "Counter", " ", "Attack">>,
       <<"Offsides">>,
       <<"Clean", " ", "Sheets">>,
       <<"Goals", " ", "Conceded">>,
       <<"Saves">>,
       <<"Blocks">>,
       <<"Interceptions">>,
       <<"Tackles">>,
       <<"Last", " ", "Man", " ", "Tackles">>,
       <<"Clearances">>,
       <<"Headed", " ", "Clearances">>,
       <<"Caught", " ", "Opponent", " ", "Offside">>,
       <<"Own", " ", "Goals">>,
       <<"Penalties", " ", "Conceded">>,
       <<"Goals", " ", "Conceded", " ", "From", " ", "Penalty">>,
       <<"Fouls">>,
       <<"Passes">>,
       <<"Through", " ", "Balls">>,
       <<"Long", " ", "Passes">>,
       <<"Backwards", " ", "Passes">>,
       <<"Crosses">>,
       <<"Corners", " ", "Taken">> >>

\* ------------------------------------------------ the statistics pages
\* The name the statistics pages give the team at league position i.
SiteStatName(sc, i) ==
    IF sc = "varied" /\ i = 14 THEN <<"Man", " ", "Utd">>
    ELSE replace(LongNames[i], "and", <<"&">>)

\* The season total the site shows for statistic number a and team i.
SiteStatValue(a, i) ==
    CASE stats_attributes[a] = <<"Wins">> -> SiteWon(i)
      [] stats_attributes[a] = <<"Losses">> -> SiteLost(i)
      [] stats_attributes[a] = <<"Goals">> -> SiteGoalsFor(i)
      [] stats_attributes[a] = <<"Goals", " ", "Conceded">> -> SiteGoalsConceded(i)
      [] stats_attributes[a] = <<"Passes">> -> 12000 + 137 * i
      [] OTHER -> (7 * a + 13 * i) % 60

SiteStatRow(sc, a, i) ==
    [team |-> <<" ">> \o SiteStatName(sc, i) \o <<"\n">>,
     stat |-> IF sc = "short" /\ a = 7 /\ i = 3 THEN <<"-">>
              ELSE SiteNumber(SiteStatValue(a, i))]

SiteStatRows(sc, a, teams) ==
    Tuple([i \in 1..Len(teams) |-> SiteStatRow(sc, a, teams[i])])

RECURSIVE Range(_, _)
\* <<lo, ..., hi>>
Range(lo, hi) == IF lo > hi THEN <<>> ELSE <<lo>> \o Range(lo + 1, hi)

Odd(n) == n % 2 = 1

\* The league positions of the teams page p of statistic number a lists.
SiteStatTeams(sc, a, p) ==
    CASE sc = "varied" /\ a % 5 = 1 ->
            IF p = 1 THEN Range(1, 10) ELSE Range(11, LeagueSize + 1)
      [] sc = "varied" /\ a % 5 = 2 ->
            IF p = 1 THEN SelectSeq(Range(1, LeagueSize), Odd) ELSE <<>>
      [] sc = "varied" /\ a % 5 = 3 -> <<>>
      [] sc = "varied" /\ a % 5 = 4 ->
            IF p = 1 THEN <<>> ELSE Range(1, LeagueSize)
      [] sc = "nomarker" /\ a = 5 /\ p = 2 -> <<1>>
      [] OTHER -> Range(1, LeagueSize)

\* A saved statistics page, as the rows of its statsTableContainer body.
StatPage(sc, a, p) == SiteStatRows(sc, a, SiteStatTeams(sc, a, p))

(* stats_scraping.py, lines 82-105: for every attribute the collector      *)
(* writes page 1, and page 2 only when the pagination click succeeded.     *)
PagesSaved(sc, a) == IF sc = "nopage2" /\ a = 4 THEN {1} ELSE {1, 2}

(* scraping/stats_html/<season>/{attribute}_{page}.html of a season the   *)
(* site showed as sc: <<the page>> when the file was saved, <<>> when not. *)
StatsHtmlFile(sc, name, page) ==
    IF page \in PagesSaved(sc, IndexOf(stats_attributes, name))
    THEN <<StatPage(sc, IndexOf(stats_attributes, name), page)>>
    ELSE <<>>

\* scraping/stats_html, as os.listdir returns it: the seasons that have a directory
StatsHtmlDir == SelectSeq(Range(1, MaxSeasons), LAMBDA k : site[k] # "nodir")

\* --------------------------------------------------------- stats_bs4.py
Unavailable ==
    {<<"Caught", " ", "Opponent", " ", "Offside">>, <<"Substitutions", " ", "On">>,
     <<"Fouls">>}

\* stats_attributes after the three remove calls
TrackedAttributes == SelectSeq(stats_attributes, LAMBDA a : a \notin Unavailable)

\* range(1, 3)
FirstPage == 1
PageStop == 3

\* The rows of one page: the team labels without their newlines, and the values.
PageRows(doc) ==
    [teams |-> Tuple([i \in 1..Len(doc) |-> replace(doc[i].team, "\n", <<>>)]),
     stats |-> Tuple([i \in 1..Len(doc) |-> doc[i].stat])]

\* A page loop without the comparison of line 44: every page is appended.
ExtendAlways(acc, rows) ==
    [teams |-> acc.teams \o rows.teams, stats |-> acc.stats \o rows.stats]

\* Lines 44-46: a page is appended unless its team list equals the one collected.
Extend(acc, rows) ==
    IF rows.teams # acc.teams
    THEN [teams |-> acc.teams \o rows.teams, stats |-> acc.stats \o rows.stats]
    ELSE acc

\* open() of a page raises FileNotFoundError
PageMissing(sc, name) ==
    \E page \in FirstPage..(PageStop - 1) : StatsHtmlFile(sc, name, page) = <<>>

RECURSIVE PageLoop(_, _, _, _)
(* The pagination loop from page on, over the lists collected so far: to   *)
(* the end of the range, or to the page whose open() raises.               *)
PageLoop(sc, name, page, acc) ==
    IF page >= PageStop \/ StatsHtmlFile(sc, name, page) = <<>> THEN acc
    ELSE PageLoop(sc, name, page + 1,
                  Extend(acc, PageRows(StatsHtmlFile(sc, name, page)[1])))

\* attribute.replace(' ', '_')
StatName(name) == replace(name, " ", <<"_">>)

\* Lines 51-59: the one-column frame of a statistic, indexed by team.
StatFrame(stat_name, teams, stats) ==
    [index |-> Tuple([i \in 1..Len(teams) |-> remove_amp(teams[i])]),
     columns |-> <<stat_name>>,
     values |-> Tuple([i \in 1..Len(teams) |-> <<StrCell(remove_comma(stats[i]))>>])]

\* The cells of the row of frame at position r, NaN in every column when r = 0.
RowAt(frame, r) ==
    IF r = 0 THEN [c \in 1..Len(frame.columns) |-> NaN] ELSE frame.values[r]

\* The rows of df and other side by side, for the row labels index.
JoinRows(df, other, index) ==
    [index |-> index,
     columns |-> df.columns \o other.columns,
     values |-> Tuple([r \in 1..Len(index) |->
                    RowAt(df, IndexOf(df.index, index[r]))
                    \o RowAt(other, IndexOf(other.index, index[r]))])]

\* pd.concat(axis=1) raises InvalidIndexError: it cannot align a repeated label.
ConcatColumnsRaises(df, other) == ~Unique(df.index) \/ ~Unique(other.index)

\* pd.concat([df, other], axis=1): the outer join of the rows on their labels.
ConcatColumns(df, other) ==
    JoinRows(df, other, df.index \o SelectSeq(other.index, LAMBDA t : ~Has(df.index, t)))

\* Line 60: master_df = pd.concat([master_df, stat_df], axis=1)
StatsConcat(frame, stat_df) ==
    IF ConcatColumnsRaises(frame, stat_df)
    THEN /\ status' = [status EXCEPT !.stats = "raised"]
         /\ stage' = "merge"
         /\ next_season' = 1
         /\ UNCHANGED <<next_attribute, stats_master_df>>
    ELSE /\ stats_master_df' = ConcatColumns(frame, stat_df)
         /\ next_attribute' = next_attribute + 1
         /\ UNCHANGED <<stage, status, next_season>>

\* Line 48: the collected team labels stripped.
Stripped(teams) == Tuple([i \in 1..Len(teams) |-> strip(teams[i])])

\* Lines 47-60 of one iteration of the attribute loop, after its page loop.
StatsCollect(season, name, frame, teams, stats) ==
    /\ teams_concat' = teams
    /\ stats_concat' = stats
    /\ warnings' = IF Len(teams) = 0 THEN warnings \cup {<<season, StatName(name)>>}
                   ELSE warnings
    /\ StatsConcat(frame, StatFrame(StatName(name), teams, stats))

\* One iteration of the attribute loop whose page loop raised, having read acc.
StatsPageRaised(acc) ==
    /\ teams_concat' = acc.teams
    /\ stats_concat' = acc.stats
    /\ status' = [status EXCEPT !.stats = "raised"]
    /\ stage' = "merge"
    /\ next_season' = 1
    /\ UNCHANGED <<next_attribute, stats_master_df, warnings>>

\* One iteration of the attribute loop once its pages are read.
StatsPages(acc) ==
    IF PageMissing(site[StatsHtmlDir[next_season]], TrackedAttributes[next_attribute])
    THEN StatsPageRaised(acc)
    ELSE
    StatsCollect(StatsHtmlDir[next_season], TrackedAttributes[next_attribute],
                 IF next_attribute = 1 THEN EmptyFrame ELSE stats_master_df,
                 Stripped(acc.teams), acc.stats)

\* One iteration of the attribute loop of stats_bs4.py.
StatsAttribute ==
    /\ stage = "stats"
    /\ next_season <= Len(StatsHtmlDir)
    /\ next_attribute <= Len(TrackedAttributes)
    /\ stats_season' = StatsHtmlDir[next_season]
    /\ attribute' = TrackedAttributes[next_attribute]
    /\ StatsPages(PageLoop(site[StatsHtmlDir[next_season]],
                           TrackedAttributes[next_attribute], FirstPage,
                           [teams |-> <<>>, stats |-> <<>>]))
    /\ UNCHANGED <<site, tables_pkl, stats_pkl, merge_vars>>

\* A drop list that leaves the Goals statistic in the season's set.
DuplicateColumnsKeepGoals ==
    << <<"Wins">>, <<"Losses">>, <<"Goals", "_", "Conceded">> >>

\* The columns of the statistics the league table already gives.
DuplicateColumns ==
    << <<"Wins">>, <<"Losses">>, <<"Goals">>, <<"Goals", "_", "Conceded">> >>

\* A fill with the sentinel -1 in place of 0.
FillNaSentinel(df) ==
    [df EXCEPT !.values =
        Tuple([r \in 1..Len(df.values) |->
            Tuple([c \in 1..Len(df.columns) |->
                IF IsNaN(df.values[r][c]) THEN IntCell(0 - 1) ELSE df.values[r][c]])])]

\* fillna(0)
FillNa(df) ==
    [df EXCEPT !.values =
        Tuple([r \in 1..Len(df.values) |->
            Tuple([c \in 1..Len(df.columns) |->
                IF IsNaN(df.values[r][c]) THEN IntCell(0) ELSE df.values[r][c]])])]

IntCoercible(cell) == IsInt(cell) \/ (cell[1] = "str" /\ IntOk(cell[2]))

\* astype(int) raises ValueError
AsTypeIntRaises(df) ==
    \E r \in 1..Len(df.values), c \in 1..Len(df.columns) : ~IntCoercible(df.values[r][c])

\* astype(int)
AsTypeInt(df) ==
    [df EXCEPT !.values =
        Tuple([r \in 1..Len(df.values) |->
            Tuple([c \in 1..Len(df.columns) |->
                IF IsInt(df.values[r][c]) THEN df.values[r][c]
                ELSE IntCell(IntVal(df.values[r][c][2]))])])]

\* drop(labels, axis=1) raises KeyError
DropRaises(columns, labels) == \E i \in 1..Len(labels) : ~Has(columns, labels[i])

\* The positions of the columns that drop(labels) keeps.
Kept(columns, labels) ==
    SelectSeq(Range(1, Len(columns)), LAMBDA c : ~Has(labels, columns[c]))

\* The frame of the columns at the positions kept.
SelectColumns(df, kept) ==
    [index |-> df.index,
     columns |-> Select(df.columns, kept),
     values |-> Tuple([r \in 1..Len(df.values) |-> Select(df.values[r], kept)])]

\* drop(labels, axis=1)
DropColumns(df, labels) == SelectColumns(df, Kept(df.columns, labels))

\* Lines 61-65, given the frame fillna(0) returns.
StatsWrite(season, filled) ==
    IF AsTypeIntRaises(filled) \/ DropRaises(filled.columns, DuplicateColumns)
    THEN /\ status' = [status EXCEPT !.stats = "raised"]
         /\ stage' = "merge"
         /\ next_season' = 1
         /\ UNCHANGED <<stats_pkl, stats_vars>>
    ELSE /\ stats_master_df' = DropColumns(AsTypeInt(filled), DuplicateColumns)
         /\ stats_pkl' = WriteFile(stats_pkl, PklName(season), stats_master_df')
         /\ next_season' = next_season + 1
         /\ next_attribute' = 1
         /\ UNCHANGED <<stage, status, teams_concat, stats_concat, warnings>>

\* Lines 61-65: the end of one iteration of the season loop of stats_bs4.py.
StatsSeasonEnd ==
    /\ stage = "stats"
    /\ next_season <= Len(StatsHtmlDir)
    /\ next_attribute > Len(TrackedAttributes)
    /\ StatsWrite(SeasonTags[StatsHtmlDir[next_season]], FillNa(stats_master_df))
    /\ UNCHANGED <<site, tables_pkl, loop_vars, merge_vars>>

\* stats_bs4.py ends after the last season.
StatsExit ==
    /\ stage = "stats"
    /\ next_season > Len(StatsHtmlDir)
    /\ status' = [status EXCEPT !.stats = "done"]
    /\ stage' = "merge"
    /\ next_season' = 1
    /\ UNCHANGED <<site, tables_pkl, stats_pkl, loop_vars, stats_vars, merge_vars>>

\* -------------------------------------------------------------- merge.py
\* scraping/tables_pkl, as os.listdir returns it
TablesPklDir ==
    SelectSeq([k \in 1..MaxSeasons |-> PklName(SeasonTags[k])],
              LAMBDA f : f \in DOMAIN tables_pkl)

\* The positions of the rows of df whose label other has too, in the order of df.
Common(df, other) ==
    SelectSeq(Range(1, Len(df.index)), LAMBDA r : Has(other.index, df.index[r]))

\* The rows of df at positions rows beside the rows of other with the same labels.
InnerRows(df, other, rows) ==
    [index |-> Tuple([i \in 1..Len(rows) |-> df.index[rows[i]]]),
     columns |-> df.columns \o other.columns,
     values |-> Tuple([i \in 1..Len(rows) |->
                    df.values[rows[i]]
                    \o other.values[IndexOf(other.index, df.index[rows[i]])]])]

\* A join that keeps every row of df, as join='outer' would for the table's teams.
ConcatLeft(df, other) == JoinRows(df, other, df.index)

\* pd.concat([df, other], axis=1, join='inner')
ConcatInner(df, other) == InnerRows(df, other, Common(df, other))

SeasonColumn == <<"Season">>
ShortNameColumn == <<"Short", "_", "name">>
PlayedColumn == <<"Played">>

\* Rows indexed by Short_name alone, the season left out of the key.
KeyedByShortName(season_df, season) ==
    [index |-> Tuple([r \in 1..Len(season_df.index) |->
                    Cell(season_df, r, ShortNameColumn)[2]]),
     columns |-> season_df.columns \o <<SeasonColumn>>,
     values |-> Tuple([r \in 1..Len(season_df.index) |->
                    season_df.values[r] \o <<StrCell(season)>>])]

\* Lines 13-15: the Season column added, the rows indexed by Short_name + Season.
Keyed(season_df, season) ==
    [index |-> Tuple([r \in 1..Len(season_df.index) |->
                    Cell(season_df, r, ShortNameColumn)[2] \o season]),
     columns |-> season_df.columns \o <<SeasonColumn>>,
     values |-> Tuple([r \in 1..Len(season_df.index) |->
                    season_df.values[r] \o <<StrCell(season)>>])]

\* The cells of a row of frame under the column names columns, NaN where it has none.
Reindexed(frame, row, columns) ==
    [c \in 1..Len(columns) |->
        IF Has(frame.columns, columns[c]) THEN row[IndexOf(frame.columns, columns[c])]
        ELSE NaN]

\* The rows of df above the rows of other, under the column names columns.
StackRows(df, other, columns) ==
    [index |-> df.index \o other.index,
     columns |-> columns,
     values |-> Tuple([r \in 1..Len(df.index) |-> Reindexed(df, df.values[r], columns)])
                \o Tuple([r \in 1..Len(other.index) |->
                            Reindexed(other, other.values[r], columns)])]

\* pd.concat([df, other], axis=0)
ConcatRows(df, other) ==
    StackRows(df, other,
              df.columns \o SelectSeq(other.columns, LAMBDA c : ~Has(df.columns, c)))

\* Lines 11-16, given the name of the season's statistics file.
MergeJoin(table, season, stats_file) ==
    IF \/ stats_file \notin DOMAIN stats_pkl
       \/ ConcatColumnsRaises(tables_pkl[table], stats_pkl[stats_file])
    THEN /\ status' = [status EXCEPT !.merge = "raised"]
         /\ stage' = "end"
         /\ UNCHANGED <<next_season, merge_vars>>
    ELSE /\ master_df' =
              ConcatRows(master_df,
                         Keyed(ConcatInner(tables_pkl[table], stats_pkl[stats_file]), season))
         /\ next_season' = next_season + 1
         /\ UNCHANGED <<stage, status, cols, joined, pl_data>>

\* One iteration of the season loop of merge.py.
MergeSeason ==
    /\ stage = "merge"
    /\ status.merge = "notrun"
    /\ next_season <= Len(TablesPklDir)
    /\ MergeJoin(TablesPklDir[next_season], FirstField(TablesPklDir[next_season], "."),
                 PklName(FirstField(TablesPklDir[next_season], ".")))
    /\ UNCHANGED <<site, tables_pkl, stats_pkl, loop_vars, stats_vars>>

\* An exclusion list that omits Played, so that the divisor is divided too.
NotPerGameWithoutPlayed ==
    << <<"Short", "_", "name">>, <<"Position">>, <<"Drawn">>, <<"Season">>,
       <<"Points">>, <<"Goal", "_", "Difference">> >>

\* The columns that are not calculated per game.
NotPerGame ==
    << <<"Short", "_", "name">>, <<"Position">>, <<"Played">>, <<"Drawn">>, <<"Season">>,
       <<"Points">>, <<"Goal", "_", "Difference">> >>

\* Lines 19-20: the columns of the rate loop.
MergeCols ==
    /\ stage = "merge"
    /\ status.merge = "notrun"
    /\ next_season > Len(TablesPklDir)
    /\ IF DropRaises(master_df.columns, NotPerGame)
       THEN /\ status' = [status EXCEPT !.merge = "raised"]
            /\ stage' = "end"
            /\ UNCHANGED <<cols, joined>>
       ELSE /\ cols' = Select(master_df.columns, Kept(master_df.columns, NotPerGame))
            /\ joined' = master_df
            /\ status' = [status EXCEPT !.merge = "running"]
            /\ UNCHANGED stage
    /\ UNCHANGED <<site, next_season, tables_pkl, stats_pkl, loop_vars, stats_vars, master_df, pl_data>>

\* x[col] / x['Played'] raises ZeroDivisionError: the operands are Python numbers.
DivideRaises(played) == played[2] = 0

\* x[col] / x['Played']
Divide(cell, played) ==
    IF IsNaN(cell) THEN NaN ELSE Float(Num(cell), Den(cell) * played[2])

\* master_df.apply(lambda x: x[col]/x['Played'], axis=1) raises
ApplyRaises(df, col) ==
    \E r \in 1..Len(df.index) : DivideRaises(Cell(df, r, PlayedColumn))

\* master_df[col] = master_df.apply(lambda x: x[col]/x['Played'], axis=1)
SetRate(df, c, played) ==
    [df EXCEPT !.values =
        Tuple([r \in 1..Len(df.values) |->
            [df.values[r] EXCEPT ![c] = Divide(df.values[r][c], df.values[r][played])]])]

\* One iteration of the rate loop of merge.py.
RateCol ==
    /\ stage = "merge"
    /\ status.merge = "running"
    /\ cols # <<>>
    /\ IF ApplyRaises(master_df, Head(cols))
       THEN /\ status' = [status EXCEPT !.merge = "raised"]
            /\ stage' = "end"
            /\ UNCHANGED <<master_df, cols>>
       ELSE /\ master_df' = SetRate(master_df, IndexOf(master_df.columns, Head(cols)),
                                    IndexOf(master_df.columns, PlayedColumn))
            /\ cols' = Tail(cols)
            /\ UNCHANGED <<stage, status>>
    /\ UNCHANGED <<site, next_season, tables_pkl, stats_pkl, loop_vars, stats_vars, joined, pl_data>>

\* Line 26: master_df.to_csv('pl_data.csv', sep=';')
ToCsv ==
    /\ stage = "merge"
    /\ status.merge = "running"
    /\ cols = <<>>
    /\ pl_data' = <<master_df>>
    /\ status' = [status EXCEPT !.merge = "done"]
    /\ stage' = "end"
    /\ UNCHANGED <<site, next_season, tables_pkl, stats_pkl, loop_vars, stats_vars, master_df, cols,
                   joined>>

NoFiles == [f \in {} |-> EmptyFrame]

Init ==
    /\ site \in [Seasons -> Scenarios]
    /\ stage = "tables"
    /\ status = [tables |-> "running", stats |-> "notrun", merge |-> "notrun"]
    /\ next_season = 1
    /\ tables_pkl = NoFiles
    /\ stats_pkl = NoFiles
    /\ next_attribute = 1
    /\ stats_master_df = EmptyFrame
    /\ teams_concat = <<>>
    /\ stats_concat = <<>>
    /\ warnings = {}
    /\ stats_season = 0
    /\ attribute = <<>>
    /\ master_df = EmptyFrame
    /\ cols = <<>>
    /\ joined = EmptyFrame
    /\ pl_data = <<>>

Next ==
    \/ TablesSeason
    \/ TablesExit
    \/ StatsAttribute
    \/ StatsSeasonEnd
    \/ StatsExit
    \/ MergeSeason
    \/ MergeCols
    \/ RateCol
    \/ ToCsv

Spec == Init /\ [][Next]_vars
\* =========================================================== properties
\* The file names of season k in the two pickle directories.
SeasonFile(k) == PklName(SeasonTags[k])

\* The members of a sequence.
Members(s) == {s[i] : i \in 1..Len(s)}

\* The positions of the rows of df whose Season is tag.
SeasonRows(df, tag) ==
    SelectSeq(Range(1, Len(df.index)), LAMBDA r : Cell(df, r, SeasonColumn) = StrCell(tag))

\* The value v is the float quotient of the integers num and den.
IsQuotient(v, num, den) ==
    /\ IsFloat(v)
    /\ v[3] > 0
    /\ v[2] * den = num * v[3]

\* ------------------------------------------------------------------ C9
\* The rows the table page of season k shows: none without a table body.
RowsFound(page) == IF Len(page.tbody) = 0 THEN 0 ELSE Len(page.tbody[1].team_name_long)

\* The frame df holds the first twenty rows of page, in document order.
FirstTwenty(df, page) ==
    /\ Len(df.index) = 20
    /\ {Cell(df, i, <<"Position">>)[2] : i \in 1..Len(df.index)} = 1..20
    /\ \A i \in 1..20 :
        /\ Cell(df, i, <<"Position">>) = IntCell(i)
        /\ df.index[i] = page.tbody[1].team_name_long[i]
        /\ Cell(df, i, ShortNameColumn) = StrCell(page.tbody[1].team_name_short[i])

(* C9: every season table that is written has exactly 20 entries, entry i  *)
(* (counted from 1) has Position i and is the i-th row of the page in      *)
(* document order, so the positions are exactly 1..20; a season whose page *)
(* shows fewer than 20 rows gets no table, and the script has raised.      *)
C9_TableHasTwentyEntries ==
    \A k \in Seasons :
        /\ SeasonFile(k) \in DOMAIN tables_pkl =>
               FirstTwenty(tables_pkl[SeasonFile(k)], TablePage(site[k]))
        /\ RowsFound(TablePage(site[k])) < 20 =>
               /\ SeasonFile(k) \notin DOMAIN tables_pkl
               /\ stage # "tables" => status.tables = "raised"

\* A page of 21 rows gave a table, and a page of fewer than 20 rows ended the script.
C9_Witness ==
    /\ stage # "tables"
    /\ status.tables = "raised"
    /\ \E k \in Seasons :
        /\ RowsFound(TablePage(site[k])) > 20
        /\ SeasonFile(k) \in DOMAIN tables_pkl
    /\ \E k \in Seasons :
        /\ RowsFound(TablePage(site[k])) \in 1..19
        /\ SeasonFile(k) \notin DOMAIN tables_pkl

\* ------------------------------------------------------------------ C5
\* The team labels of a saved page of a statistic, as lines 38-43 read them.
PageTeams(sc, name, page) == PageRows(StatsHtmlFile(sc, name, page)[1]).teams

\* What the page loop leaves in the two lists, for the labels of pages 1 and 2.
Paginated(first, second) ==
    /\ Len(teams_concat) = Len(stats_concat)
    /\ second = first => teams_concat = Stripped(first)
    /\ second # first => teams_concat = Stripped(first \o second)
    /\ (second = first /\ Unique(Stripped(first))) => Unique(teams_concat)

(* C5: after the page loop of a statistic whose two pages are saved, the   *)
(* team list and the value list have the same length; when page 2 lists    *)
(* the same teams as page 1 it is discarded and the lists hold page 1 only *)
(* (each team once); when it differs the lists hold page 1 then page 2.    *)
C5_PaginationDeduplicated ==
    (attribute # <<>> /\ ~PageMissing(site[stats_season], attribute)) =>
        Paginated(PageTeams(site[stats_season], attribute, 1),
                  PageTeams(site[stats_season], attribute, 2))

\* A page 2 that repeats a non-empty page 1 was read and not appended.
C5_Witness ==
    /\ attribute # <<>>
    /\ ~PageMissing(site[stats_season], attribute)
    /\ PageTeams(site[stats_season], attribute, 1) # <<>>
    /\ PageTeams(site[stats_season], attribute, 2) = PageTeams(site[stats_season], attribute, 1)
    /\ Len(teams_concat) = Len(PageTeams(site[stats_season], attribute, 1))
    /\ next_attribute > 1

\* ------------------------------------------------------------------ C1
\* The rows of the master frame that carry the short name of row t of table.
RowsOfTeam(table, t, rows) ==
    {i \in 1..Len(rows) :
        Cell(master_df, rows[i], ShortNameColumn) = Cell(table, t, ShortNameColumn)}

(* The rows of one merged season: each comes from a team of both frames,   *)
(* a team of both frames has one row, a team of one frame has none.        *)
InnerJoined(table, stats, tag, rows) ==
    /\ \A i \in 1..Len(rows) :
        \E t \in 1..Len(table.index) :
            /\ i \in RowsOfTeam(table, t, rows)
            /\ Has(stats.index, table.index[t])
            /\ status.merge = "notrun" =>
                   master_df.values[rows[i]] =
                       table.values[t] \o stats.values[IndexOf(stats.index, table.index[t])]
                       \o <<StrCell(tag)>>
    /\ \A t \in 1..Len(table.index) :
        Cardinality(RowsOfTeam(table, t, rows)) =
            IF Has(stats.index, table.index[t]) THEN 1 ELSE 0
    /\ Len(rows) = Cardinality(Members(table.index) \cap Members(stats.index))

(* C1: for every season merged, every row of the season in the master      *)
(* frame belongs to a team that is in the season's table and in its        *)
(* statistics; a team in both has exactly one row, a team in only one of   *)
(* them has none.                                                          *)
C1_InnerJoinOnTeam ==
    stage \in {"merge", "end"} =>
        \A p \in 1..(next_season - 1) :
            InnerJoined(tables_pkl[TablesPklDir[p]], stats_pkl[TablesPklDir[p]],
                        FirstField(TablesPklDir[p], "."),
                        SeasonRows(master_df, FirstField(TablesPklDir[p], ".")))

\* A merged season with a team in the table only and a team in the statistics only.
C1_Witness ==
    /\ stage = "end"
    /\ pl_data # <<>>
    /\ \E p \in 1..(next_season - 1) :
        /\ Members(tables_pkl[TablesPklDir[p]].index)
               \ Members(stats_pkl[TablesPklDir[p]].index) # {}
        /\ Members(stats_pkl[TablesPklDir[p]].index)
               \ Members(tables_pkl[TablesPklDir[p]].index) # {}
        /\ SeasonRows(master_df, FirstField(TablesPklDir[p], ".")) # <<>>

\* ------------------------------------------------------------------ C2
\* The exclusion set of the rate deriver.
Excluded ==
    {<<"Short", "_", "name">>, <<"Position">>, <<"Played">>, <<"Drawn">>, <<"Season">>,
     <<"Points">>, <<"Goal", "_", "Difference">>}

\* Column c of df holds, in every row, the joined value over the joined Played.
RateOfJoined(df, c, played) ==
    \A r \in 1..Len(df.values) :
        IsQuotient(df.values[r][c], joined.values[r][c][2], joined.values[r][played][2])

\* Column c of df holds the joined values.
SameAsJoined(df, c) ==
    \A r \in 1..Len(df.values) : df.values[r][c] = joined.values[r][c]

(* C2: once the rate loop has started, the master frame has the rows and   *)
(* columns the join left; every column of the exclusion set holds the      *)
(* joined values; every other column holds the joined values until the     *)
(* loop reaches it and from then on the joined value divided by the joined *)
(* Played of the row; the file written is the frame with every column      *)
(* outside the exclusion set divided.                                      *)
C2_RateIsValueOverPlayed ==
    joined # EmptyFrame =>
        /\ master_df.index = joined.index
        /\ master_df.columns = joined.columns
        /\ \A c \in 1..Len(joined.columns) :
            IF joined.columns[c] \in Excluded \/ Has(cols, joined.columns[c])
            THEN SameAsJoined(master_df, c)
            ELSE RateOfJoined(master_df, c, IndexOf(joined.columns, PlayedColumn))
        /\ pl_data # <<>> => (cols = <<>> /\ pl_data[1] = master_df)

\* A file was written in which a rate differs from the joined value.
C2_Witness ==
    /\ pl_data # <<>>
    /\ Len(joined.index) > 0
    /\ Cell(pl_data[1], 1, <<"Won">>) # Cell(joined, 1, <<"Won">>)
    /\ IsFloat(Cell(pl_data[1], 1, <<"Passes">>))
    /\ Cell(pl_data[1], 1, PlayedColumn) = Cell(joined, 1, PlayedColumn)

\* ------------------------------------------------------------------ C8
\* The teams a saved page lists, under the labels the season's set gives them.
TeamsOf(file) ==
    IF file = <<>> THEN {}
    ELSE {remove_amp(strip(replace(file[1][i].team, "\n", <<>>))) : i \in 1..Len(file[1])}

\* The teams the saved pages of a statistic list.
ListedTeams(sc, name) ==
    UNION {TeamsOf(StatsHtmlFile(sc, name, page)) : page \in FirstPage..(PageStop - 1)}

\* The teams of df have 0 in column c unless they are among listed.
ZeroUnlessListed(df, c, listed) ==
    \A r \in 1..Len(df.index) : df.index[r] \notin listed => df.values[r][c] = IntCell(0)

\* The statistic of a column of a season's statistics set.
AttributeOf(column) == CHOOSE a \in Members(TrackedAttributes) : StatName(a) = column

\* The set df written for a season the site showed as sc is filled with integers.
ZeroFilled(sc, df) ==
    /\ \A r \in 1..Len(df.index), c \in 1..Len(df.columns) : IsInt(df.values[r][c])
    /\ \A c \in 1..Len(df.columns) :
        ZeroUnlessListed(df, c, ListedTeams(sc, AttributeOf(df.columns[c])))
    /\ \A a \in Members(TrackedAttributes) : ListedTeams(sc, a) \subseteq Members(df.index)

\* stats_bs4.py has just written the statistics set of a season.
StatsJustWritten == stage = "stats" /\ next_attribute = 1 /\ next_season > 1

(* C8: a season's statistics set, when it is written, has a row for every  *)
(* team that a tracked statistic's pages list, every cell of it is an      *)
(* integer, and the cell is 0 where the statistic's pages do not list the  *)
(* team; the master frame of merge.py never holds a missing value.         *)
C8_AbsentStatisticIsZero ==
    /\ StatsJustWritten =>
           ZeroFilled(site[StatsHtmlDir[next_season - 1]],
                      stats_pkl[SeasonFile(StatsHtmlDir[next_season - 1])])
    /\ \A r \in 1..Len(master_df.index), c \in 1..Len(master_df.columns) :
           ~IsNaN(master_df.values[r][c])

\* A team that some statistic's pages do not list has rows of zeros in such columns.
ZeroWasFilled(sc, df) ==
    \E c \in 1..Len(df.columns), r \in 1..Len(df.index) :
        /\ df.index[r] \notin ListedTeams(sc, AttributeOf(df.columns[c]))
        /\ df.values[r][c] = IntCell(0)

\* A set was written with a filled cell, a statistic without rows having been logged.
C8_Witness ==
    /\ StatsJustWritten
    /\ warnings # {}
    /\ ZeroWasFilled(site[StatsHtmlDir[next_season - 1]],
                     stats_pkl[SeasonFile(StatsHtmlDir[next_season - 1])])

\* ------------------------------------------------------------------ C7
(* The rows of a season the site showed complete and consistent: twenty,   *)
(* in table order, the columns of the exclusion set as the site shows them.*)
CompleteSeason(df, tag, rows) ==
    /\ Len(rows) = 20
    /\ \A i \in 1..Len(rows) :
        /\ Cell(df, rows[i], ShortNameColumn) = StrCell(ShortNames[i])
        /\ Cell(df, rows[i], <<"Position">>) = IntCell(i)
        /\ Cell(df, rows[i], PlayedColumn) = IntCell(38)
        /\ Cell(df, rows[i], <<"Drawn">>) = IntCell(SiteDrawn(i))
        /\ Cell(df, rows[i], <<"Points">>) = IntCell(3 * SiteWon(i) + SiteDrawn(i))
        /\ Cell(df, rows[i], <<"Goal", "_", "Difference">>) =
               IntCell(SiteGoalsFor(i) - SiteGoalsConceded(i))
        /\ Cell(df, rows[i], SeasonColumn) = StrCell(tag)

\* Column col of the rows holds the goals the site shows, per game played.
GoalsPerGame(df, col, rows) ==
    /\ Has(df.columns, col)
    /\ \A i \in 1..Len(rows) : IsQuotient(Cell(df, rows[i], col), SiteGoalsFor(i), 38)

\* The season k was scraped complete and both builders have processed it.
ScrapedComplete(k) ==
    /\ site[k] = "ok"
    /\ SeasonFile(k) \in DOMAIN tables_pkl
    /\ SeasonFile(k) \in DOMAIN stats_pkl

(* C7 as the specification states it, for the seasons the builders have    *)
(* processed: a season scraped complete has twenty rows in the file, a     *)
(* Goals column holding the goals of the Goals statistic pages over        *)
(* Played, and the excluded columns as scraped.                            *)
C7_GoalsRateColumn ==
    pl_data # <<>> =>
        \A k \in Seasons : ScrapedComplete(k) =>
            /\ CompleteSeason(pl_data[1], SeasonTags[k], SeasonRows(pl_data[1], SeasonTags[k]))
            /\ GoalsPerGame(pl_data[1], <<"Goals">>, SeasonRows(pl_data[1], SeasonTags[k]))

(* C7: a season scraped complete (twenty table rows, every tracked         *)
(* statistic, the same team names on both sides) whose table and           *)
(* statistics set the builders have written has exactly twenty rows in the *)
(* file written; the file has no Goals column, the statistic being dropped *)
(* from the season's set; its Goals_For column holds the goals of the      *)
(* league table over Played; Short_name, Position, Played, Drawn, Season,  *)
(* Points and Goal_Difference hold the values scraped.                     *)
C7_GoalsForRateColumn ==
    pl_data # <<>> =>
        /\ ~Has(pl_data[1].columns, <<"Goals">>)
        /\ \A k \in Seasons : ScrapedComplete(k) =>
            /\ CompleteSeason(pl_data[1], SeasonTags[k], SeasonRows(pl_data[1], SeasonTags[k]))
            /\ GoalsPerGame(pl_data[1], <<"Goals", "_", "For">>,
                            SeasonRows(pl_data[1], SeasonTags[k]))

\* The file was written with the rows of a season scraped complete.
C7_Witness ==
    /\ pl_data # <<>>
    /\ \E k \in Seasons :
        /\ ScrapedComplete(k)
        /\ Len(SeasonRows(pl_data[1], SeasonTags[k])) = 20
        /\ Cell(pl_data[1], SeasonRows(pl_data[1], SeasonTags[k])[1], <<"Goals", "_", "For">>)
               = Float(SiteGoalsFor(1), 38)

\* ------------------------------------------------------------------ C4
\* The saved pages on which the iteration of a season raises, in each builder.
TableFaulty == {"nomarker", "short", "badint"}
StatsFaulty == {"nopage2", "short", "nomarker"}

\* The table files whose season has no statistics file.
Unmatched ==
    SelectSeq(Range(1, Len(TablesPklDir)), LAMBDA p : TablesPklDir[p] \notin DOMAIN stats_pkl)

(* C4 as the specification states it: a season that fails costs only its   *)
(* own output: every season whose own pages are sound has its table and    *)
(* its statistics set, whether it comes before or after a failing one, and *)
(* the final file is written from the seasons that have both.              *)
C4_FailureIsolated ==
    /\ stage # "tables" =>
           \A k \in Seasons : site[k] \notin TableFaulty => SeasonFile(k) \in DOMAIN tables_pkl
    /\ stage \in {"merge", "end"} =>
           \A k \in Seasons :
               site[k] \notin StatsFaulty \cup {"nodir"} => SeasonFile(k) \in DOMAIN stats_pkl
    /\ (stage = "end" /\ \A k \in Seasons : site[k] # "played0") =>
           ((DOMAIN tables_pkl \cap DOMAIN stats_pkl # {}) => pl_data # <<>>)

(* C4: a season that fails ends the script: the seasons before it keep the *)
(* output already written and no season after it is processed, in          *)
(* tables_regex.py and in stats_bs4.py; merge.py stops at the first table  *)
(* without a statistics set and then writes no final file.                 *)
C4_FailureEndsScript ==
    /\ stage # "tables" =>
           /\ \A k \in Seasons :
                  SeasonFile(k) \in DOMAIN tables_pkl
                      <=> \A j \in 1..k : site[j] \notin TableFaulty
           /\ status.tables = "raised" <=> \E k \in Seasons : site[k] \in TableFaulty
    /\ stage \in {"merge", "end"} =>
           /\ \A k \in Seasons :
                  SeasonFile(k) \in DOMAIN stats_pkl
                      <=> (site[k] # "nodir" /\ \A j \in 1..k : site[j] \notin StatsFaulty)
           /\ status.stats = "raised" <=> \E k \in Seasons : site[k] \in StatsFaulty
    /\ (stage = "end" /\ Unmatched # <<>>) =>
           /\ pl_data = <<>>
           /\ status.merge = "raised"
           /\ next_season = Head(Unmatched)
           /\ Len(master_df.index) <= 20 * (Head(Unmatched) - 1)

\* A season with sound pages after a failing one was left without its table.
C4_Witness ==
    /\ stage = "end"
    /\ status.tables = "raised"
    /\ \E j \in Seasons, k \in Seasons :
        /\ j < k
        /\ site[j] \in TableFaulty
        /\ site[k] \notin TableFaulty
        /\ SeasonFile(k) \notin DOMAIN tables_pkl
        /\ \A i \in 1..(j - 1) : SeasonFile(i) \in DOMAIN tables_pkl

\* ------------------------------------------------------------------ C3
\* The rows of the joined frame with no game played.
ZeroPlayed == {r \in 1..Len(joined.index) : Cell(joined, r, PlayedColumn) = IntCell(0)}

\* Row r of the joined frame has 0 in every rate column of the frame df.
ZeroRates(df, r) ==
    \A c \in 1..Len(df.columns) :
        df.columns[c] \notin Excluded => IsQuotient(df.values[r][c], 0, 1)

(* C3 as the specification states it: when a row with Played = 0 reaches   *)
(* the rate loop the file is still written, and in it the row has its      *)
(* rates set to zero or is left out; no error ends the run.                *)
C3_ZeroPlayedHandled ==
    (stage = "end" /\ ZeroPlayed # {}) =>
        /\ status.merge = "done"
        /\ pl_data # <<>>
        /\ \A r \in ZeroPlayed :
            \/ ~Has(pl_data[1].index, joined.index[r])
            \/ ZeroRates(pl_data[1], r)

\* ------------------------------------------------------------------ C6
\* The short names of a season's table are distinct.
ShortNamesUnique(table) ==
    Unique([r \in 1..Len(table.index) |-> Cell(table, r, ShortNameColumn)])

(* C6: whatever seasons the merge loop has processed, no two rows of the   *)
(* master frame have the same Idx, and the Idx of a row is its Short_name  *)
(* followed, with nothing between, by its Season; the short names of each  *)
(* table are distinct and so are the collectors' season tags.              *)
C6_KeyUnique ==
    /\ \A f \in DOMAIN tables_pkl : ShortNamesUnique(tables_pkl[f])
    /\ Unique(master_df.index)
    /\ \A r \in 1..Len(master_df.index) :
        master_df.index[r] =
            Cell(master_df, r, ShortNameColumn)[2] \o Cell(master_df, r, SeasonColumn)[2]

(* Two seasons are merged that share a short name, one of them with a      *)
(* short name that ends in the digits a season tag starts with.            *)
C6_Witness ==
    /\ stage = "end"
    /\ pl_data # <<>>
    /\ \E r \in 1..Len(master_df.index), q \in 1..Len(master_df.index) :
        /\ r # q
        /\ Cell(master_df, r, ShortNameColumn) = Cell(master_df, q, ShortNameColumn)
        /\ Cell(master_df, r, SeasonColumn) # Cell(master_df, q, SeasonColumn)
    /\ \E r \in 1..Len(master_df.index) :
        Cell(master_df, r, ShortNameColumn) = StrCell(ShortNames[1] \o <<"2", "0">>)

\* ----------------------------------------------------------------- C10
(* C10 as the specification states it: a statistic of which the collector  *)
(* saved page 1 only is processed: the builder never ends in an error at   *)
(* such a statistic.                                                       *)
C10_SinglePageProcessed ==
    ~ /\ status.stats = "raised"
      /\ attribute # <<>>
      /\ StatsHtmlFile(site[stats_season], attribute, 1) # <<>>
      /\ StatsHtmlFile(site[stats_season], attribute, 2) = <<>>

=============================================================================
